---- MODULE Spec2Model ----
(***************************************************************************)
(* Pulse core: sources, guards (src/src/index.ts, the guard module that    *)
(* starts at line 36) and the SSR protocol (src/src/ssr.ts).               *)
(*                                                                         *)
(* A guard's evaluate() runs synchronously, cascading through              *)
(* notifyDependents() into the evaluate() of its dependents; every handler *)
(* is one action, its whole cascade included.  The promise an async        *)
(* evaluator returns stays in `inflight` until its settlement handlers     *)
(* run, which is an action of its own.                                     *)
(***************************************************************************)
EXTENDS Integers, Sequences, FiniteSets, TLC

\* ------------------------------------------------------------------ bounds
MaxVal == 1        \* sources hold the numbers 0..MaxVal
MaxOps == 2        \* calls of set / capture / restore made by the application

\* ---------------------------------------------------------------- universe
Sources == {"A", "B", "C"}
Guards == {"g1", "g2", "g3"}
GuardOrder == <<"g1", "g2", "g3">>      \* order of construction
None == "none"
SourceValues == 0..MaxVal

\* JavaScript values the evaluators produce
Undefined == [t |-> "undefined"]
Num(n) == [t |-> "number", n |-> n]
Bool(b) == [t |-> "boolean", b |-> b]
Str(s) == [t |-> "string", s |-> s]
NaN == [t |-> "nan"]
\* an Error object that carries a code and metadata beside its message
StructuredError(message, code, meta) ==
  [t |-> "error", message |-> message, code |-> code, meta |-> meta]

Truthy(v) ==
  CASE v.t = "number" -> v.n # 0
    [] v.t = "boolean" -> v.b
    [] v.t = "string" -> v.s # ""
    [] OTHER -> FALSE

\* v > 0 as JavaScript computes it (true is 1, undefined is NaN)
Positive(v) ==
  CASE v.t = "number" -> v.n > 0
    [] v.t = "boolean" -> v.b
    [] OTHER -> FALSE

\* v % 2 === 0
IsEven(v) ==
  CASE v.t = "number" -> v.n % 2 = 0
    [] v.t = "boolean" -> ~v.b
    [] OTHER -> FALSE

\* -------------------------------------------------------------- sequences
InSeq(x, s) == \E i \in 1..Len(s) : s[i] = x

\* Set.add: insertion order, no duplicates
SetAdd(s, x) == IF InSeq(x, s) THEN s ELSE Append(s, x)

\* call by value: the one element of a set { e(x) : x \in {arg} }, in which
\* arg is evaluated once, before e
Force(S) == CHOOSE x \in S : TRUE

\* ------------------------------------------------------------- guard state
PendingState == [status |-> "pending", value |-> Undefined, reason |-> Undefined]
OkState(v) == [status |-> "ok", value |-> v, reason |-> Undefined]
FailState(r) == [status |-> "fail", value |-> Undefined, reason |-> r]

\* ---------------------------------------------------------------- programs
\* An evaluator reads `sel` (when it has one), then reads ifT or ifF after
\* the truthiness of what sel gave, applies fn to the last value read and,
\* when async, does so behind an await: the reads are its synchronous prefix.
Program(nm, a, sel, ifT, ifF, fn) ==
  [name |-> nm, async |-> a, sel |-> sel, ifT |-> ifT, ifF |-> ifF, fn |-> fn]

\* g1: the guards of the tests 'should react to source changes', 'should
\* persist dependencies even on failure' and 'cancels stale async
\* evaluations', and a guard that reads A or B after what C holds
Programs1 ==
  { Program("n1", FALSE, None, "A", None, "isEven"),
    Program("n1", FALSE, None, "A", None, "throwPos"),
    Program("n1", TRUE, None, "A", None, "id"),
    Program("n1", TRUE, None, "A", None, "throwPos"),
    Program("n1", FALSE, "C", "A", "B", "id") }

\* g2: a guard over g1, an unnamed guard, an async guard over B
Programs2 ==
  { Program("n2", FALSE, None, "g1", None, "id"),
    Program(None, FALSE, None, "B", None, "isEven"),
    Program("n2", TRUE, None, "B", None, "id") }

\* g3: a second guard named like g1 (the client's guard of the SSR test)
Programs3 ==
  { Program("n1", TRUE, None, "A", None, "throwPos"),
    Program("n1", FALSE, None, "g2", None, "id") }

Scenes ==
  { sc \in [Guards -> Programs1 \cup Programs2 \cup Programs3] :
      /\ sc["g1"] \in Programs1
      /\ sc["g2"] \in Programs2
      /\ sc["g3"] \in Programs3
      \* g3 is async only in programs whose other guards are synchronous
      /\ ~(sc["g3"].async /\ (sc["g1"].async \/ sc["g2"].async)) }

\* An evaluator of the form  if (sel()) return fnT(ifT()); return fnF
Branch(nm, sel, ifT, fnT, fnF) ==
  [name |-> nm, async |-> FALSE, sel |-> sel, ifT |-> ifT, ifF |-> None,
   fn |-> fnT, fnF |-> fnF]

\* g1 of the guards that depend on each other: A of the test 'should detect
\* cyclic dependencies' (if (toggle()) return !b(); return true), and a
\* guard whose exchange with g2 settles: () => toggle() ? b() + 1 : 0
CyclePrograms1 ==
  { Branch("n1", "C", "g2", "not", "true"),
    Branch("n1", "C", "g2", "succ", "zero") }

\* g2: B of the test (() => a()), and () => a() ? 1 : 0
CyclePrograms2 ==
  { Program("n2", FALSE, None, "g1", None, "id"),
    Program("n2", FALSE, None, "g1", None, "sign") }

\* g3: a guard outside the cycle, over a source or over g2
CyclePrograms3 ==
  { Program(None, FALSE, None, "A", None, "isEven"),
    Program(None, FALSE, None, "g2", None, "id") }

CycleScenes ==
  { sc \in [Guards -> CyclePrograms1 \cup CyclePrograms2 \cup CyclePrograms3] :
      /\ sc["g1"] \in CyclePrograms1
      /\ sc["g2"] \in CyclePrograms2
      /\ sc["g3"] \in CyclePrograms3 }

\* guard.all(name, guards): the evaluator consults ok() of each listed guard
All(nm, guards) ==
  [name |-> nm, async |-> FALSE, sel |-> None, ifT |-> None, ifF |-> None,
   fn |-> "all", list |-> guards]

\* compute(name, dependencies, processor)
Compute(nm, dependencies, processor) ==
  [name |-> nm, async |-> FALSE, sel |-> None, ifT |-> None, ifF |-> None,
   fn |-> processor, list |-> dependencies]

\* g1: a synchronous guard over A, and guard.map(A, async v => v + 1)
DerivedPrograms1 ==
  { Program("n1", FALSE, None, "A", None, "isEven"),
    Program("n1", TRUE, None, "A", None, "succ") }

\* g2: guards over B, one of them ok with whatever B holds
DerivedPrograms2 ==
  { Program("n2", FALSE, None, "B", None, "isEven"),
    Program("n2", FALSE, None, "B", None, "id") }

\* g3: guard.all over g1 and g2, and computes over A and B
DerivedPrograms3 ==
  { All("n3", <<"g1", "g2">>),
    All("n3", <<"g2", "g1">>),
    Compute("n3", <<"A", "B">>, "sum"),
    Compute("n3", <<"A", "B">>, "less") }

DerivedScenes ==
  { sc \in [Guards -> DerivedPrograms1 \cup DerivedPrograms2 \cup DerivedPrograms3] :
      /\ sc["g1"] \in DerivedPrograms1
      /\ sc["g2"] \in DerivedPrograms2
      /\ sc["g3"] \in DerivedPrograms3 }

\* g1: the guard of the test 'should support structured reason metadata',
\* raising when A is positive, and an async guard that rejects with the
\* same error
SignalPrograms1 ==
  { Program("n1", FALSE, None, "A", None, "throwStructured"),
    Program("n1", TRUE, None, "A", None, "throwStructured") }

\* g2: a guard over g1, a guard over B
SignalPrograms2 ==
  { Program("n2", FALSE, None, "g1", None, "id"),
    Program(None, FALSE, None, "B", None, "isEven") }

\* g3: a guard over g2, a guard raising when B is positive
SignalPrograms3 ==
  { Program("n3", FALSE, None, "g2", None, "id"),
    Program("n3", FALSE, None, "B", None, "throwStructured") }

\* guard.any(name, guards): the evaluator consults ok() of each listed guard
any(nm, guards) ==
  [name |-> nm, async |-> FALSE, sel |-> None, ifT |-> None, ifF |-> None,
   fn |-> "any", list |-> guards]

\* guard.not(name, evaluatorOrGuard): the wrapped evaluator applies fn to
\* what it reads of a source; a wrapped guard is consulted for its status
Not(nm, a, wrapped, fn) ==
  [name |-> nm, async |-> a, sel |-> None, ifT |-> wrapped, ifF |-> None,
   fn |-> fn, inverted |-> TRUE]

\* g1, g2: the guards gA, gB of the test 'guard.any should work', and
\* asynchronous guards over the same sources
LogicPrograms1 ==
  { Program("n1", FALSE, None, "A", None, "isEven"),
    Program("n1", TRUE, None, "A", None, "isEven") }

LogicPrograms2 ==
  { Program("n2", FALSE, None, "B", None, "isEven"),
    Program("n2", FALSE, None, "B", None, "throwPos") }

\* g3: guard.any over g1 and g2, guard.not over an evaluator (synchronous,
\* asynchronous, raising) and over the guard g1
LogicPrograms3 ==
  { any("n3", <<"g1", "g2">>),
    any("n3", <<"g2", "g1">>),
    Not("n3", FALSE, "A", "isEven"),
    Not("n3", TRUE, "A", "isEven"),
    Not("n3", FALSE, "B", "throwPos"),
    Not("n3", FALSE, "g1", "status") }

LogicScenes ==
  { sc \in [Guards -> LogicPrograms1 \cup LogicPrograms2 \cup LogicPrograms3] :
      /\ sc["g1"] \in LogicPrograms1
      /\ sc["g2"] \in LogicPrograms2
      /\ sc["g3"] \in LogicPrograms3 }

\* An evaluator that sets a source before it reads:
\* () => { s.set(v); return fn(target()) }
Setter(nm, s, v, target, fn) ==
  [name |-> nm, async |-> FALSE, sel |-> None, ifT |-> target, ifF |-> None,
   fn |-> fn, sets |-> [s |-> s, v |-> v]]

\* An evaluator that gives what a guard says of its failure:
\* () => target.reason(), or () => target.state().reason
Via(nm, target, how) ==
  [name |-> nm, async |-> FALSE, sel |-> None, ifT |-> target, ifF |-> None,
   fn |-> "id", via |-> how]

\* An asynchronous evaluator that reads again after its await:
\* async () => { target(); await delay(); return fn(late()) }
Late(nm, target, late, fn) ==
  [name |-> nm, async |-> TRUE, sel |-> None, ifT |-> target, ifF |-> None,
   fn |-> fn, late |-> late]

\* g1: a guard over A, a guard over A that fails in two ways (raising, and
\* returning false), and a guard that sets B before it reads A
WavePrograms1 ==
  { Program("n1", FALSE, None, "A", None, "id"),
    Program("n1", FALSE, None, "A", None, "throwPosElseFalse"),
    Setter("n1", "B", 1, "A", "isEven") }

\* g2: a second guard over A, guards over B (raising, asynchronous), and an
\* asynchronous guard that reads A, then B after its await
WavePrograms2 ==
  { Program("n2", FALSE, None, "A", None, "succ"),
    Program("n2", FALSE, None, "B", None, "throwPos"),
    Program("n2", TRUE, None, "B", None, "id"),
    Late("n2", "A", "B", "id") }

\* g3: a guard over both g1 and g2 (with both over A, a diamond), guards
\* over what g1 says of its failure, a guard over g2
WavePrograms3 ==
  { Compute("n3", <<"g1", "g2">>, "sum"),
    Via("n3", "g1", "reason"),
    Via("n3", "g1", "state"),
    Program("n3", FALSE, None, "g2", None, "id") }

WaveScenes ==
  { sc \in [Guards -> WavePrograms1 \cup WavePrograms2 \cup WavePrograms3] :
      /\ sc["g1"] \in WavePrograms1
      /\ sc["g2"] \in WavePrograms2
      /\ sc["g3"] \in WavePrograms3 }

\* A guard whose subscribed listener raises:
\* g.subscribe(() => { throw new Error('listener failed') })
Listened(nm, a, target, fn) ==
  [name |-> nm, async |-> a, sel |-> None, ifT |-> target, ifF |-> None,
   fn |-> fn, listener |-> "raises"]

\* g1: a guard over A, synchronous or asynchronous, whose listener raises,
\* and one whose listener returns
ListenerPrograms1 ==
  { Listened("n1", FALSE, "A", "isEven"),
    Listened("n1", TRUE, "A", "isEven"),
    Listened("n1", TRUE, "A", "throwPos"),
    Program("n1", FALSE, None, "A", None, "id") }

\* g2: a guard over g1, its listener raising or not
ListenerPrograms2 ==
  { Program("n2", FALSE, None, "g1", None, "id"),
    Listened("n2", FALSE, "g1", "id") }

\* g3: a guard over B, a guard over g2
ListenerPrograms3 ==
  { Program("n3", FALSE, None, "B", None, "isEven"),
    Program("n3", FALSE, None, "g2", None, "id") }

ListenerScenes ==
  { sc \in [Guards -> ListenerPrograms1 \cup ListenerPrograms2 \cup ListenerPrograms3] :
      /\ sc["g1"] \in ListenerPrograms1
      /\ sc["g2"] \in ListenerPrograms2
      /\ sc["g3"] \in ListenerPrograms3 }

SignalScenes ==
  { sc \in [Guards -> SignalPrograms1 \cup SignalPrograms2 \cup SignalPrograms3] :
      /\ sc["g1"] \in SignalPrograms1
      /\ sc["g2"] \in SignalPrograms2
      /\ sc["g3"] \in SignalPrograms3 }

VARIABLES
  prog,          \* the program: each guard's name and evaluator (fixed by Init)
  srcVal,        \* source -> its value
  srcDeps,       \* source -> its dependents, in insertion order
  gState,        \* guard -> {status, value, reason}
  evaluationId,  \* guard -> its generation counter
  dependents,    \* guard -> its dependents, in insertion order
  tracked,       \* guard -> what node.addDependency has recorded
  subscribers,   \* guards a listener is subscribed to
  inflight,      \* promises returned by evaluators and not yet settled
  activeGuard,   \* the tracking context's slot
  guardRegistry, \* ssr.ts: name -> guard
  units,         \* registry.ts: PulseRegistry (units by name, generations)
  cap,           \* the capture (ssr evaluate) in progress, if any
  snap,          \* the snapshot the last capture returned
  ops,           \* calls made by the application so far
  obs,           \* observations: counters of evaluator and subscriber calls, reads
  last           \* the handler that ran last

vars == <<prog, srcVal, srcDeps, gState, evaluationId, dependents, tracked,
          subscribers, inflight, activeGuard, guardRegistry, units, cap, snap, ops,
          obs, last>>

\* name of a guard (guard.ts line 152)
NameOf(g) == prog[g].name

\* the sources the program creates: those its evaluators mention
ProgramSources ==
  { s \in Sources : \E g \in Guards :
      \/ s \in {prog[g].sel, prog[g].ifT, prog[g].ifF}
      \/ "list" \in DOMAIN prog[g] /\ InSeq(s, prog[g].list)
      \/ "sets" \in DOMAIN prog[g] /\ s = prog[g].sets.s
      \/ "late" \in DOMAIN prog[g] /\ s = prog[g].late }

\* Depth of the synchronous cascade the model follows
MaxDepth == 6

\* ------------------------------------------------------- tracking context
\* getCurrentGuard()
getCurrentGuard(st) == st.active

\* node.addDependency(trackable): "Internal tracking", an empty body
addDependency(st, g, t) == st

\* what an observer sees of a read made while guard `a` is active
NoteRead(st, t) ==
  IF st.active = None THEN st
  ELSE [st EXCEPT !.obs.lastReads[st.active] = SetAdd(@, t)]

\* ------------------------------------------------------------------ source
\* Source read: registers the active guard as a dependent, returns the value
SourceRead(st, s) ==
  LET a == getCurrentGuard(st)
      s1 == IF a # None
              THEN addDependency([st EXCEPT !.srcDeps[s] = SetAdd(@, a)], a, s)
              ELSE st
  IN [st |-> NoteRead(s1, s), v |-> Num(st.srcVal[s])]

\* ------------------------------------------------------------- guard reads
\* handleRead
handleRead(st, g) ==
  LET a == getCurrentGuard(st)
  IN IF a # None /\ a # g THEN [st EXCEPT !.deps[g] = SetAdd(@, a)] ELSE st

\* g(): the value when ok, undefined otherwise
GuardRead(st, g) ==
  LET s1 == handleRead(st, g)
  IN [st |-> NoteRead(s1, g),
      v |-> IF s1.state[g].status = "ok" THEN s1.state[g].value ELSE Undefined]

\* g.ok()
ok(st, g) ==
  LET s1 == handleRead(st, g)
  IN [st |-> NoteRead(s1, g), v |-> Bool(s1.state[g].status = "ok")]

\* g.fail()
fail(st, g) ==
  LET s1 == handleRead(st, g)
  IN [st |-> NoteRead(s1, g), v |-> Bool(s1.state[g].status = "fail")]

\* g.state()
stateOf(st, g) ==
  LET s1 == handleRead(st, g)
  IN [st |-> NoteRead(s1, g), v |-> s1.state[g]]

\* g.reason()
reasonOf(st, g) ==
  LET s1 == handleRead(st, g)
  IN [st |-> NoteRead(s1, g), v |-> s1.state[g].reason]

\* g.pending()
pending(st, g) ==
  LET s1 == handleRead(st, g)
  IN [st |-> NoteRead(s1, g), v |-> Bool(s1.state[g].status = "pending")]

Read(st, t) == IF t \in Sources THEN SourceRead(st, t) ELSE GuardRead(st, t)

\* --------------------------------------------------------------- evaluator
RECURSIVE evaluate(_, _, _), notifyDependents(_, _, _), NotifyEach(_, _, _)
RECURSIVE SourceSet(_, _, _)

Outcome(fn, v) ==
  CASE fn = "id" -> [kind |-> "return", v |-> v]
    [] fn = "not" -> [kind |-> "return", v |-> Bool(~Truthy(v))]
    [] fn = "true" -> [kind |-> "return", v |-> Bool(TRUE)]
    [] fn = "zero" -> [kind |-> "return", v |-> Num(0)]
    [] fn = "succ" -> [kind |-> "return", v |-> IF v.t = "number" THEN Num(v.n + 1) ELSE NaN]
    [] fn = "sign" -> [kind |-> "return", v |-> IF Truthy(v) THEN Num(1) ELSE Num(0)]
    [] fn = "isEven" -> [kind |-> "return", v |-> Bool(IsEven(v))]
    [] fn = "throwPos" ->
         IF Positive(v) THEN [kind |-> "throw", v |-> Str("fail early")]
         ELSE [kind |-> "return", v |-> Bool(TRUE)]
    [] fn = "throwPosElseFalse" ->
         IF Positive(v) THEN [kind |-> "throw", v |-> Str("fail early")]
         ELSE [kind |-> "return", v |-> Bool(FALSE)]
    [] fn = "throwStructured" ->
         IF Positive(v)
           THEN [kind |-> "throw", v |-> StructuredError("structured", "ERR_AUTH", "guest")]
           ELSE [kind |-> "return", v |-> Bool(TRUE)]

RECURSIVE ReadEach(_, _, _, _)
\* dependencies.map(dep => dep()), or guards' ok() one after the other:
\* the state after the reads and the values read, in list order
ReadEach(st, list, byOk, vals) ==
  IF list = <<>> THEN [st |-> st, vals |-> vals]
  ELSE Force({ ReadEach(r.st, Tail(list), byOk, Append(vals, r.v))
               : r \in {IF byOk THEN ok(st, Head(list)) ELSE Read(st, Head(list))} })

\* a + b as JavaScript adds two numbers
Plus(a, b) == IF a.t = "number" /\ b.t = "number" THEN Num(a.n + b.n) ELSE NaN

\* processor(...values)
Processor(fn, vals) ==
  CASE fn = "sum" -> [kind |-> "return", v |-> Plus(vals[1], vals[2])]
    [] fn = "less" ->
         [kind |-> "return",
          v |-> Bool(vals[1].t = "number" /\ vals[2].t = "number" /\ vals[1].n < vals[2].n)]

\* the result of all's evaluator: true when every ok() gave true, otherwise
\* the failure '<name> failed' of the first guard, in list order, whose ok()
\* gave false
AllOutcome(guards, vals) ==
  IF \A i \in 1..Len(vals) : vals[i] = Bool(TRUE)
    THEN [kind |-> "return", v |-> Bool(TRUE)]
    ELSE LET i == CHOOSE k \in 1..Len(vals) :
                    /\ vals[k] # Bool(TRUE)
                    /\ \A j \in 1..(k - 1) : vals[j] = Bool(TRUE)
         IN [kind |-> "throw", v |-> Str(NameOf(guards[i]) \o " failed")]

\* the reason of any when no listed guard is ok
AnyReason == Str("no guard succeeded")

\* the result of any's evaluator: true when some ok() gave true, otherwise
\* the failure saying that none succeeded
AnyOutcome(vals) ==
  IF \E i \in 1..Len(vals) : vals[i] = Bool(TRUE)
    THEN [kind |-> "return", v |-> Bool(TRUE)]
    ELSE [kind |-> "throw", v |-> AnyReason]

\* the evaluator of a guard built by guard.all, by guard.any or by compute
ListEvaluator(st, g) ==
  LET p == prog[g]
  IN Force({ [st |-> [r.st EXCEPT !.obs.execs[g] = @ + 1],
              res |-> IF p.fn = "all" THEN AllOutcome(p.list, r.vals)
                      ELSE IF p.fn = "any" THEN AnyOutcome(r.vals)
                      ELSE Processor(p.fn, r.vals)]
             : r \in {ReadEach(st, p.list, p.fn \in {"all", "any"}, <<>>)} })

\* not's result for what the wrapped evaluator gave: false (the guard
\* fails) when it would leave a guard ok, true when it would leave it fail
Invert(out) ==
  IF out.kind = "throw" \/ out.v = Bool(FALSE)
    THEN [kind |-> "return", v |-> Bool(TRUE)]
    ELSE [kind |-> "return", v |-> Bool(FALSE)]

\* a promise that nothing settles
Never == [kind |-> "promise", v |-> [kind |-> "never"]]

\* the evaluator of a guard built by guard.not: over an evaluator, its
\* result inverted (behind the await when asynchronous); over a guard, the
\* inverse of its status, pending while it is pending
NotEvaluator(st, g) ==
  LET p == prog[g]
  IN IF p.ifT \in Sources
       THEN Force({ [st |-> [r.st EXCEPT !.obs.execs[g] = @ + 1],
                     res |-> IF p.async
                               THEN [kind |-> "promise", v |-> Invert(Outcome(p.fn, r.v))]
                               ELSE Invert(Outcome(p.fn, r.v))]
                    : r \in {Read(st, p.ifT)} })
       ELSE Force({ [st |-> [r.st EXCEPT !.obs.execs[g] = @ + 1],
                     res |-> CASE r.v.status = "pending" -> Never
                               [] r.v.status = "ok" -> [kind |-> "return", v |-> Bool(FALSE)]
                               [] OTHER -> [kind |-> "return", v |-> Bool(TRUE)]]
                    : r \in {stateOf(st, p.ifT)} })

\* the evaluator that sets a source: the set runs its whole wave inside the
\* evaluator, then the read is made
SetterEvaluator(st, g) ==
  LET p == prog[g]
  IN Force({ IF s1.thrown # Undefined
               THEN [st |-> [s1 EXCEPT !.thrown = Undefined, !.obs.execs[g] = @ + 1],
                     res |-> [kind |-> "throw", v |-> s1.thrown]]
               ELSE Force({ [st |-> [r.st EXCEPT !.obs.execs[g] = @ + 1],
                             res |-> Outcome(p.fn, r.v)]
                            : r \in {Read(s1, p.ifT)} })
             : s1 \in {SourceSet(st, p.sets.s, p.sets.v)} })

\* the evaluator over a guard's reason() or state().reason
ViaEvaluator(st, g) ==
  LET p == prog[g]
  IN IF p.via = "reason"
       THEN Force({ [st |-> [r.st EXCEPT !.obs.execs[g] = @ + 1],
                     res |-> [kind |-> "return", v |-> r.v]]
                    : r \in {reasonOf(st, p.ifT)} })
       ELSE Force({ [st |-> [r.st EXCEPT !.obs.execs[g] = @ + 1],
                     res |-> [kind |-> "return", v |-> r.v.reason]]
                    : r \in {stateOf(st, p.ifT)} })

\* evaluator(): the reads of the synchronous prefix, then the result; an
\* async function returns a promise whatever its body does
Evaluator(st, g) ==
  LET p == prog[g]
  IN IF "list" \in DOMAIN p THEN ListEvaluator(st, g)
     ELSE IF "inverted" \in DOMAIN p THEN NotEvaluator(st, g)
     ELSE IF "sets" \in DOMAIN p THEN SetterEvaluator(st, g)
     ELSE IF "via" \in DOMAIN p THEN ViaEvaluator(st, g) ELSE
     Force({
       LET target == IF p.sel = None THEN p.ifT
                     ELSE IF Truthy(r1.v) THEN p.ifT ELSE p.ifF
       IN Force({
            LET out == IF target = None THEN Outcome(p.fnF, r2.v)
                       ELSE Outcome(p.fn, r2.v)
                s3 == [r2.st EXCEPT !.obs.execs[g] = @ + 1]
            IN [st |-> s3,
                res |-> IF p.async THEN [kind |-> "promise", v |-> out] ELSE out]
            : r2 \in {IF target = None THEN r1 ELSE Read(r1.st, target)} })
       : r1 \in {IF p.sel = None THEN [st |-> st, v |-> Undefined]
                 ELSE Read(st, p.sel)} })

\* faulty variant: the slot is emptied on the way out, whatever it held
runInContextClearing(st, g) ==
  Force({ [st |-> [r.st EXCEPT !.active = None], res |-> r.res]
          : r \in {Evaluator([st EXCEPT !.active = g], g)} })

\* runInContext(node, fn): set the slot, call, put the previous value back
runInContext(st, g) ==
  LET prev == st.active
  IN Force({ [st |-> [r.st EXCEPT !.active = prev], res |-> r.res]
             : r \in {Evaluator([st EXCEPT !.active = g], g)} })

\* ------------------------------------------------------------------- guard
\* the reason of a `false` result: `${name} failed`, or 'condition failed'
DefaultReason(g) ==
  Str(IF NameOf(g) # None THEN NameOf(g) \o " failed" ELSE "condition failed")

\* faulty variant: any falsy result fails
ResultStateFalsy(g, v) ==
  IF ~Truthy(v) THEN FailState(DefaultReason(g)) ELSE OkState(v)

\* faulty variant: a result of undefined leaves the guard pending
ResultStateUndefinedPending(g, v) ==
  IF v = Undefined THEN PendingState
  ELSE IF v = Bool(FALSE) THEN FailState(DefaultReason(g)) ELSE OkState(v)

\* the state a plain result gives (sync result, or the value a promise
\* resolved to): exactly false fails, anything else is ok with that value
ResultState(g, v) ==
  IF v = Bool(FALSE) THEN FailState(DefaultReason(g)) ELSE OkState(v)

\* the catch handlers: reason is err.message (a thrown Str(m) stands for
\* new Error(m))
ErrorState(err) == FailState(IF err.t = "error" THEN Str(err.message) ELSE err)

\* faulty variant: every settlement is taken for the current one
IsCurrentAlways(st, g, currentId) == TRUE

\* faulty variant: a settlement is current unless a later attempt has settled first
IsCurrentUntilApplied(st, g, currentId) == st.obs.applied[g] = 0 \/ currentId = st.evalId[g]

\* currentId === evaluationId
IsCurrent(st, g, currentId) == currentId = st.evalId[g]

\* faulty variant: the status alone is replaced: { ...state, status: 'pending' }
SetPendingKeepingValue(st, g) == [st EXCEPT !.state[g].status = "pending"]

\* state = { status: 'pending' }
SetPending(st, g) == [st EXCEPT !.state[g] = PendingState]

\* faulty variant: the status alone is compared
ChangedStatusOnly(oldStatus, oldValue, new) == oldStatus # new.status

\* oldStatus !== state.status || oldValue !== state.value
Changed(oldStatus, oldValue, new) == oldStatus # new.status \/ oldValue # new.value

\* the error a listener raises
ListenerError == Str("listener failed")

\* subscribers.forEach(sub => sub({ ...state })): a listener that raises
\* ends the call with its error
\* (observer: the call is matched with the oldest transition of g not yet
\* delivered)
CallSubscribers(st, g) ==
  Force({ LET s1 == [s EXCEPT !.obs.undelivered[g] = Tail(@)]
          IN IF g \in s.subs
               THEN [s1 EXCEPT !.obs.subCalls[g] = @ + 1,
                               !.obs.lastSeen[g] = s.state[g],
                               !.obs.misdelivered =
                                  @ \/ Head(s.obs.undelivered[g]) # s.state[g],
                               !.thrown = IF "listener" \in DOMAIN prog[g]
                                            THEN ListenerError ELSE @]
               ELSE s1
          : s \in {st} })

\* faulty variant: an evaluator's error leaves evaluate and ends the forEach
NotifyEachUntilThrow(st, deps, fuel) ==
  IF deps = <<>> THEN st
  ELSE Force({ IF s1.obs.lastRes[Head(deps)].kind = "throw" THEN s1
               ELSE NotifyEach(s1, Tail(deps), fuel)
               : s1 \in {evaluate(st, Head(deps), fuel)} })

\* faulty variant: the dependents are visited from the last registered one
NotifyEachReversed(st, deps, fuel) ==
  IF deps = <<>> THEN st
  ELSE Force({ NotifyEach(s1, SubSeq(deps, 1, Len(deps) - 1), fuel)
               : s1 \in {evaluate(st, deps[Len(deps)], fuel)} })

\* deps.forEach(dep => dep.notify()): an error that leaves a notify ends
\* the loop
NotifyEach(st, deps, fuel) ==
  IF deps = <<>> THEN st
  ELSE Force({ IF s1.thrown # Undefined THEN s1
               ELSE NotifyEach(s1, Tail(deps), fuel)
               : s1 \in {evaluate(st, Head(deps), fuel)} })

\* notifyDependents: snapshot and clear the dependents, re-evaluate each,
\* then call the subscribers
notifyDependents(st, g, fuel) ==
  Force({ LET deps == s.deps[g]
              s1 == [s EXCEPT !.deps[g] = <<>>,
                              !.obs.undelivered[g] = Append(@, s.state[g])]
          IN Force({ IF s2.thrown # Undefined THEN s2 ELSE CallSubscribers(s2, g)
                     : s2 \in {NotifyEach(s1, deps, fuel)} })
          : s \in {st} })

\* the reason the test expects of a guard caught in a cycle
CyclicReason == Str("Cyclic guard dependency detected")

\* faulty variant: a cycle guard over a call stack from which a guard is
\* not popped when its evaluation returns
evaluateWithoutPop(st, g, fuel) ==
  Force({
    IF fuel = 0 THEN [s EXCEPT !.obs.overflow = TRUE]
    ELSE IF InSeq(g, s.obs.stack)
      THEN [s EXCEPT !.evalId[g] = @ + 1, !.state[g] = FailState(CyclicReason)]
    ELSE
      LET s0 == [s EXCEPT !.evalId[g] = @ + 1,
                          !.obs.prevReads[g] = s.obs.lastReads[g],
                          !.obs.lastReads[g] = <<>>,
                          !.obs.atStart[g] = s.obs.applied[g] + s.obs.discarded[g],
                          !.obs.stack = Append(@, g),
                          !.obs.reentries[g] = IF InSeq(g, s.obs.stack) THEN @ + 1 ELSE @]
          currentId == s0.evalId[g]
          oldStatus == s.state[g].status
          oldValue == s.state[g].value
      IN Force({ x : x \in {Force({
           LET s1 == [r.st EXCEPT !.obs.lastRes[g] = r.res]
           IN CASE r.res.kind = "promise" ->
                     LET s2 == SetPending(s1, g)
                     IN [s2 EXCEPT !.inflight =
                           @ \cup (IF r.res = Never THEN {}
                                   ELSE {[g |-> g, id |-> currentId, outcome |-> r.res.v]})]
                [] r.res.kind = "throw" ->
                     notifyDependents([s1 EXCEPT !.state[g] = ErrorState(r.res.v)],
                                      g, fuel - 1)
                [] OTHER ->
                     LET new == ResultState(g, r.res.v)
                     IN IF Changed(oldStatus, oldValue, new)
                          THEN Force({
                                 IF n.thrown # Undefined
                                   THEN \* the catch block takes what left notifyDependents
                                        notifyDependents(
                                          [n EXCEPT !.thrown = Undefined,
                                                    !.state[g] = ErrorState(n.thrown)],
                                          g, fuel - 1)
                                   ELSE n
                                 : n \in {notifyDependents([s1 EXCEPT !.state[g] = new],
                                                           g, fuel - 1)} })
                          ELSE [s1 EXCEPT !.state[g] = new]
           : r \in {runInContext(s0, g)} })} })
    : s \in {st} })

\* evaluate
evaluate(st, g, fuel) ==
  Force({
    IF fuel = 0 THEN [s EXCEPT !.obs.overflow = TRUE]
    ELSE
      LET s0 == [s EXCEPT !.evalId[g] = @ + 1,
                          !.obs.prevReads[g] = s.obs.lastReads[g],
                          !.obs.lastReads[g] = <<>>,
                          !.obs.atStart[g] = s.obs.applied[g] + s.obs.discarded[g],
                          !.obs.stack = Append(@, g),
                          !.obs.reentries[g] = IF InSeq(g, s.obs.stack) THEN @ + 1 ELSE @]
          currentId == s0.evalId[g]
          oldStatus == s.state[g].status
          oldValue == s.state[g].value
      IN Force({ [x EXCEPT !.obs.stack = s.obs.stack] : x \in {Force({
           LET s1 == [r.st EXCEPT !.obs.lastRes[g] = r.res]
           IN CASE r.res.kind = "promise" ->
                     LET s2 == SetPending(s1, g)
                     IN [s2 EXCEPT !.inflight =
                           @ \cup (IF r.res = Never THEN {}
                                   ELSE {[g |-> g, id |-> currentId, outcome |-> r.res.v]})]
                [] r.res.kind = "throw" ->
                     notifyDependents([s1 EXCEPT !.state[g] = ErrorState(r.res.v)],
                                      g, fuel - 1)
                [] OTHER ->
                     LET new == ResultState(g, r.res.v)
                     IN IF Changed(oldStatus, oldValue, new)
                          THEN Force({
                                 IF n.thrown # Undefined
                                   THEN \* the catch block takes what left notifyDependents
                                        notifyDependents(
                                          [n EXCEPT !.thrown = Undefined,
                                                    !.state[g] = ErrorState(n.thrown)],
                                          g, fuel - 1)
                                   ELSE n
                                 : n \in {notifyDependents([s1 EXCEPT !.state[g] = new],
                                                           g, fuel - 1)} })
                          ELSE [s1 EXCEPT !.state[g] = new]
           : r \in {runInContext(s0, g)} })} })
    : s \in {st} })

\* faulty variant: the rest of the evaluator runs with its guard in the slot
ContinuationInContext(st, p) ==
  IF "late" \in DOMAIN prog[p.g]
    THEN Force({ [st |-> [r.st EXCEPT !.active = st.active],
                  outcome |-> Outcome(prog[p.g].fn, r.v)]
                 : r \in {Read([st EXCEPT !.active = p.g], prog[p.g].late)} })
    ELSE [st |-> st, outcome |-> p.outcome]

\* the rest of an asynchronous evaluator, after its await: the reads it
\* makes there, with the slot as the event loop left it, and what the
\* promise settles with
Continuation(st, p) ==
  IF "late" \in DOMAIN prog[p.g]
    THEN Force({ [st |-> r.st, outcome |-> Outcome(prog[p.g].fn, r.v)]
                 : r \in {Read(st, prog[p.g].late)} })
    ELSE [st |-> st, outcome |-> p.outcome]

\* one promise settles: the rest of the evaluator, then the .then / .catch
\* handlers
settle(st, p) ==
  Force({ LET s1 == c.st
          IN IF IsCurrent(s1, p.g, p.id)
               THEN LET new == IF c.outcome.kind = "return"
                                 THEN ResultState(p.g, c.outcome.v)
                                 ELSE ErrorState(c.outcome.v)
                    IN Force({
                         IF n.thrown # Undefined /\ c.outcome.kind = "return"
                              /\ IsCurrent(n, p.g, p.id)
                           THEN \* what left the .then handler goes to the .catch handler
                                notifyDependents(
                                  [n EXCEPT !.thrown = Undefined,
                                            !.state[p.g] = ErrorState(n.thrown)],
                                  p.g, MaxDepth)
                           ELSE n
                         : n \in {notifyDependents([s1 EXCEPT !.state[p.g] = new,
                                                             !.obs.applied[p.g] = @ + 1],
                                                   p.g, MaxDepth)} })
               ELSE [s1 EXCEPT !.obs.discarded[p.g] = @ + 1]
          : c \in {Continuation([st EXCEPT !.inflight = @ \ {p}], p)} })

\* faulty variant: _hydrate without evaluationId++
_hydrateWithoutBump(st, g, newState) ==
  LET s1 == [st EXCEPT !.state[g] = newState]
      s2 == [s1 EXCEPT !.obs.hydratedAt[g] = s1.evalId[g]]
  IN notifyDependents(s2, g, MaxDepth)

\* faulty variant: _hydrate without notifyDependents()
_hydrateSilently(st, g, newState) ==
  LET s1 == [st EXCEPT !.state[g] = newState,
                       !.evalId[g] = @ + 1]
  IN [s1 EXCEPT !.obs.hydratedAt[g] = s1.evalId[g]]

\* g._hydrate(newState)
_hydrate(st, g, newState) ==
  LET s1 == [st EXCEPT !.state[g] = newState,
                       !.evalId[g] = @ + 1]
      s2 == [s1 EXCEPT !.obs.hydratedAt[g] = s1.evalId[g]]
  IN notifyDependents(s2, g, MaxDepth)

\* Source.set(v): replace the value, snapshot and clear the dependents,
\* notify each
SourceSet(st, s, v) ==
  LET deps == st.srcDeps[s]
      s1 == [st EXCEPT !.srcVal[s] = v, !.srcDeps[s] = <<>>]
  IN NotifyEach(s1, deps, MaxDepth)

\* explain(): name, status and one entry for each dependency recorded by
\* addDependency
explain(st, g) ==
  [name |-> NameOf(g), status |-> st.state[g].status, dependencies |-> st.tracked[g]]

\* --------------------------------------------------------------------- ssr
Names == {"n1", "n2", "n3"}

\* faulty variant: a name that is registered keeps its guard
registerGuardForHydrationOnce(reg, name, g) ==
  IF reg[name] # None THEN reg ELSE [reg EXCEPT ![name] = g]

\* registerGuardForHydration: guardRegistry.set(name, guard)
registerGuardForHydration(reg, name, g) == [reg EXCEPT ![name] = g]

\* state[name] = g.state(): a key set again keeps its place
PutEntry(snapshot, name, state) ==
  IF \E i \in 1..Len(snapshot) : snapshot[i].name = name
    THEN [i \in 1..Len(snapshot) |->
            IF snapshot[i].name = name THEN [name |-> name, state |-> state]
            ELSE snapshot[i]]
    ELSE Append(snapshot, [name |-> name, state |-> state])

RECURSIVE TakeSnapshot(_, _, _)
\* guards.forEach(g => { if (name) state[name] = g.state() })
TakeSnapshot(states, list, snapshot) ==
  IF list = <<>> THEN snapshot
  ELSE LET g == Head(list)
       IN TakeSnapshot(states, Tail(list),
            IF NameOf(g) # None THEN PutEntry(snapshot, NameOf(g), states[g])
            ELSE snapshot)

\* JSON.stringify of one value
JsonValue(v) ==
  CASE v.t = "number" -> [lit |-> "number", num |-> v.n]
    [] v.t = "boolean" -> [lit |-> IF v.b THEN "true" ELSE "false"]
    [] v.t = "string" -> [lit |-> "string", str |-> v.s]

\* JSON.parse of one value
JsonLiteral(j) ==
  CASE j.lit = "number" -> Num(j.num)
    [] j.lit = "true" -> Bool(TRUE)
    [] j.lit = "false" -> Bool(FALSE)
    [] j.lit = "string" -> Str(j.str)

\* the members of a state object: a member whose value is undefined is left out
JsonMembers(state) ==
  <<[key |-> "status", val |-> JsonValue(Str(state.status))]>>
    \o (IF state.value = Undefined THEN <<>>
        ELSE <<[key |-> "value", val |-> JsonValue(state.value)]>>)
    \o (IF state.reason = Undefined THEN <<>>
        ELSE <<[key |-> "reason", val |-> JsonValue(state.reason)]>>)

\* JSON.stringify(serverState)
JsonStringify(snapshot) ==
  [i \in 1..Len(snapshot) |->
     [key |-> snapshot[i].name, members |-> JsonMembers(snapshot[i].state)]]

\* obj[key] of a parsed object: undefined when the text has no such member
Member(members, key) ==
  IF \E i \in 1..Len(members) : members[i].key = key
    THEN JsonLiteral((CHOOSE m \in {members[i] : i \in 1..Len(members)} : m.key = key).val)
    ELSE Undefined

\* JSON.parse(json)
JsonParse(text) ==
  [i \in 1..Len(text) |->
     [name |-> text[i].key,
      state |-> [status |-> Member(text[i].members, "status").s,
                 value |-> Member(text[i].members, "value"),
                 reason |-> Member(text[i].members, "reason")]]]

RECURSIVE hydrate(_, _, _)
\* hydrate(state): each entry, in key order, into the guard registered last
\* under that name
hydrate(st, reg, entries) ==
  IF entries = <<>> THEN st
  ELSE LET e == Head(entries)
           g == reg[e.name]
       IN Force({ IF s1.thrown # Undefined THEN s1
                  ELSE hydrate(s1, reg, Tail(entries))
                  : s1 \in {IF g # None THEN _hydrate(st, g, e.state) ELSE st} })

\* ------------------------------------------------------------ construction
NoObs ==
  [execs |-> [g \in Guards |-> 0],
   subCalls |-> [g \in Guards |-> 0],
   lastSeen |-> [g \in Guards |-> PendingState],
   lastReads |-> [g \in Guards |-> <<>>],
   prevReads |-> [g \in Guards |-> <<>>],
   lastRes |-> [g \in Guards |-> [kind |-> "none"]],
   applied |-> [g \in Guards |-> 0],
   discarded |-> [g \in Guards |-> 0],
   atStart |-> [g \in Guards |-> 0],
   hydratedAt |-> [g \in Guards |-> 0],
   overflow |-> FALSE,
   stack |-> <<>>,
   reentries |-> [g \in Guards |-> 0],
   undelivered |-> [g \in Guards |-> <<>>],
   misdelivered |-> FALSE]

\* guard(): let state = { status: 'pending' }, evaluationId = 0, no
\* dependents, no subscribers
Blank(init) ==
  [srcVal |-> init,
   srcDeps |-> [s \in Sources |-> <<>>],
   state |-> [g \in Guards |-> PendingState],
   evalId |-> [g \in Guards |-> 0],
   deps |-> [g \in Guards |-> <<>>],
   tracked |-> [g \in Guards |-> <<>>],
   subs |-> {},
   inflight |-> {},
   active |-> None,
   thrown |-> Undefined,
   obs |-> NoObs]

RECURSIVE ConstructAll(_, _)
\* guard(name, fn) for each guard of the program: the initial evaluate()
ConstructAll(st, order) ==
  IF order = <<>> THEN st
  ELSE Force({ ConstructAll(s1, Tail(order))
               : s1 \in {evaluate(st, Head(order), MaxDepth)} })

RECURSIVE RegisterAll(_, _)
\* if (name) registerGuardForHydration(name, g), in construction order
RegisterAll(reg, order) ==
  IF order = <<>> THEN reg
  ELSE RegisterAll(IF NameOf(Head(order)) # None
                     THEN registerGuardForHydration(reg, NameOf(Head(order)), Head(order))
                     ELSE reg,
                   Tail(order))

\* new Registry(): no units, currentGeneration = 0, no cleanup scheduled
\* (generation[n] is the _generation of the unit kept under n)
EmptyRegistry ==
  [units |-> [n \in Names |-> None],
   generation |-> [n \in Names |-> 0],
   currentGeneration |-> 0,
   cleanupScheduled |-> FALSE]

\* scheduleCleanup: sets the timer unless one is set
scheduleCleanup(un) ==
  IF un.cleanupScheduled THEN un ELSE [un EXCEPT !.cleanupScheduled = TRUE]

\* cleanupDeadUnits: deletes the units whose generation is below the
\* current one
cleanupDeadUnits(un) ==
  [un EXCEPT !.units =
     [n \in Names |->
        IF un.units[n] # None /\ un.generation[n] < un.currentGeneration
          THEN None ELSE un.units[n]]]

\* PulseRegistry.register(unit): only a unit with a name is kept, under
\* its name; over a unit of the current generation it replaces it, over a
\* unit of another generation it first increments the generation and
\* schedules the cleanup
register(un, name, g) ==
  IF name = None THEN un
  ELSE IF un.units[name] # None /\ un.generation[name] = un.currentGeneration
    THEN [un EXCEPT !.units[name] = g, !.generation[name] = un.currentGeneration]
  ELSE Force({ [marked EXCEPT !.units[name] = g,
                              !.generation[name] = marked.currentGeneration]
               : marked \in {IF un.units[name] # None
                               THEN scheduleCleanup(
                                      [un EXCEPT !.currentGeneration = @ + 1])
                               ELSE un} })

RECURSIVE RegisterUnits(_, _)
\* PulseRegistry.register(g), in construction order
RegisterUnits(un, order) ==
  IF order = <<>> THEN un
  ELSE RegisterUnits(register(un, NameOf(Head(order)), Head(order)), Tail(order))

Idle == [phase |-> "idle", list |-> <<>>, waiting |-> {}]

\* the program sc, constructed with A holding a
Start(sc, a) ==
    /\ prog = sc
    /\ LET st == ConstructAll(Blank([s \in Sources |-> IF s = "A" THEN a ELSE 0]), GuardOrder)
       IN /\ srcVal = st.srcVal
          /\ srcDeps = st.srcDeps
          /\ gState = st.state
          /\ evaluationId = st.evalId
          /\ dependents = st.deps
          /\ tracked = st.tracked
          /\ subscribers = Guards
          /\ inflight = st.inflight
          /\ activeGuard = st.active
          /\ obs = st.obs
    /\ guardRegistry = RegisterAll([n \in Names |-> None], GuardOrder)
    /\ units = RegisterUnits(EmptyRegistry, GuardOrder)
    /\ cap = Idle
    /\ snap = <<>>
    /\ ops = 0
    /\ last = [op |-> "init", t |-> None, id |-> 0]

Init == \E sc \in Scenes, a \in SourceValues : Start(sc, a)

\* ----------------------------------------------------------------- actions
Cur ==
  [srcVal |-> srcVal, srcDeps |-> srcDeps, state |-> gState,
   evalId |-> evaluationId, deps |-> dependents, tracked |-> tracked,
   subs |-> subscribers, inflight |-> inflight, active |-> activeGuard,
   thrown |-> Undefined, obs |-> obs]

Commit(st) ==
  /\ srcVal' = st.srcVal
  /\ srcDeps' = st.srcDeps
  /\ gState' = st.state
  /\ evaluationId' = st.evalId
  /\ dependents' = st.deps
  /\ tracked' = st.tracked
  /\ subscribers' = st.subs
  /\ inflight' = st.inflight
  /\ activeGuard' = st.active
  /\ obs' = st.obs

\* the application calls source.set(v)
Set(s, v) ==
  /\ ops < MaxOps
  /\ Commit(SourceSet(Cur, s, v))
  /\ ops' = ops + 1
  /\ last' = [op |-> "set", t |-> s, id |-> 0]
  /\ UNCHANGED <<prog, guardRegistry, units, cap, snap>>

\* a promise settles and its handlers run
Settle(p) ==
  /\ p \in inflight
  /\ Commit(settle(Cur, p))
  /\ last' = [op |-> "settle", t |-> p.g, id |-> p.id]
  /\ UNCHANGED <<prog, guardRegistry, units, cap, snap, ops>>

\* the application calls hydrate(JSON.parse(JSON.stringify(snapshot)))
Hydrate ==
  /\ ops < MaxOps
  /\ snap # <<>>
  /\ Commit(hydrate(Cur, guardRegistry, JsonParse(JsonStringify(snap))))
  /\ ops' = ops + 1
  /\ last' = [op |-> "hydrate", t |-> None, id |-> 0]
  /\ UNCHANGED <<prog, guardRegistry, units, cap, snap>>

\* the lists of guards the application passes to capture
CaptureLists ==
  { <<g>> : g \in Guards } \cup { <<g, h>> : <<g, h>> \in { pr \in Guards \X Guards : pr[1] # pr[2] } }

\* g.pending() with no guard active
IsPending(g) == gState[g].status = "pending"

\* ssr evaluate(guards), up to the first await: each guard's loop tests
\* g.pending(); with none pending the snapshot is taken
CaptureStart(list) ==
  /\ ops < MaxOps
  /\ cap.phase = "idle"
  /\ LET waiting == { list[i] : i \in { j \in 1..Len(list) : IsPending(list[j]) } }
     IN IF waiting = {}
          THEN /\ snap' = TakeSnapshot(gState, list, <<>>)
               /\ cap' = Idle
          ELSE /\ snap' = snap
               /\ cap' = [phase |-> "waiting", list |-> list, waiting |-> waiting]
  /\ ops' = ops + 1
  /\ last' = [op |-> "capture", t |-> None, id |-> 0]
  /\ UNCHANGED <<prog, srcVal, srcDeps, gState, evaluationId, dependents, tracked,
                 subscribers, inflight, activeGuard, guardRegistry, units, obs>>

\* faulty variant: the loop does not yield (while (g.pending()) {}), so its
\* test is never made again
CapturePollSpinning(g) ==
  /\ FALSE
  /\ UNCHANGED vars

\* the timer of one guard's loop fires and g.pending() is false: that loop
\* ends; when it was the last one, Promise.all resolves and the snapshot is
\* taken
CapturePoll(g) ==
  /\ cap.phase = "waiting"
  /\ g \in cap.waiting
  /\ ~IsPending(g)
  /\ IF cap.waiting = {g}
       THEN /\ snap' = TakeSnapshot(gState, cap.list, <<>>)
            /\ cap' = Idle
       ELSE /\ snap' = snap
            /\ cap' = [cap EXCEPT !.waiting = @ \ {g}]
  /\ last' = [op |-> "poll", t |-> g, id |-> 0]
  /\ UNCHANGED <<prog, srcVal, srcDeps, gState, evaluationId, dependents, tracked,
                 subscribers, inflight, activeGuard, guardRegistry, units, obs, ops>>

Next ==
  \/ \E s \in ProgramSources, v \in SourceValues : Set(s, v)
  \/ \E p \in inflight : Settle(p)
  \/ Hydrate
  \/ \E list \in CaptureLists : CaptureStart(list)
  \/ \E g \in Guards : CapturePoll(g)

Spec == Init /\ [][Next]_vars

\* ------------------------------------- guards that depend on each other
\* the function subscribe returned is called: subscribers.delete(listener)
Unsubscribe(g) ==
  /\ g \in subscribers
  /\ subscribers' = subscribers \ {g}
  /\ last' = [op |-> "unsubscribe", t |-> g, id |-> 0]
  /\ UNCHANGED <<prog, srcVal, srcDeps, gState, evaluationId, dependents, tracked,
                 inflight, activeGuard, guardRegistry, units, cap, snap, ops, obs>>

InitCycle == \E sc \in CycleScenes, a \in SourceValues : Start(sc, a)

NextCycle ==
  \/ \E s \in ProgramSources, v \in SourceValues : Set(s, v)
  \/ \E g \in Guards : Unsubscribe(g)

SpecCycle == InitCycle /\ [][NextCycle]_vars

\* --------------------------------------------- guard.all, guard.map, compute
InitDerived == \E sc \in DerivedScenes, a \in SourceValues : Start(sc, a)

NextDerived ==
  \/ \E s \in ProgramSources, v \in SourceValues : Set(s, v)
  \/ \E p \in inflight : Settle(p)

SpecDerived == InitDerived /\ [][NextDerived]_vars

\* ------------------------------------------------ capture under a scheduler
\* the program whose first two guards are asynchronous, the first one
\* settling to ok or to fail with its source
LiveScenes ==
  { sc \in Scenes : sc["g1"].async /\ sc["g1"].fn = "throwPos" /\ sc["g2"].async }

InitLive == \E sc \in LiveScenes, a \in SourceValues : Start(sc, a)

\* The event loop runs every continuation that is ready: a promise that can
\* settle does, and a timer that was set fires.
SpecLive ==
  /\ InitLive
  /\ [][Next]_vars
  /\ WF_vars(\E p \in inflight : Settle(p))
  /\ WF_vars(\E g \in Guards : CapturePoll(g))

\* ------------------------------------------ evaluators that raise a payload
InitSignals == \E sc \in SignalScenes, a \in SourceValues : Start(sc, a)

NextSignals ==
  \/ \E s \in ProgramSources, v \in SourceValues : Set(s, v)
  \/ \E p \in inflight : Settle(p)

SpecSignals == InitSignals /\ [][NextSignals]_vars

\* ------------------------------------------------- guard.any and guard.not
InitLogic == \E sc \in LogicScenes, a \in SourceValues : Start(sc, a)

NextLogic ==
  \/ \E s \in ProgramSources, v \in SourceValues : Set(s, v)
  \/ \E p \in inflight : Settle(p)

SpecLogic == InitLogic /\ [][NextLogic]_vars

\* --------------------------------------------- a capture made at start-up
\* the program sc, constructed with A holding a, after the server has called
\* capture(list) on its guards and the call waits (ops counts the calls
\* made after that one)
StartCapturing(sc, a, list) ==
  /\ prog = sc
  /\ LET st == ConstructAll(Blank([s \in Sources |-> IF s = "A" THEN a ELSE 0]), GuardOrder)
         waiting == { list[i] : i \in { j \in 1..Len(list) :
                                          st.state[list[j]].status = "pending" } }
     IN /\ srcVal = st.srcVal
        /\ srcDeps = st.srcDeps
        /\ gState = st.state
        /\ evaluationId = st.evalId
        /\ dependents = st.deps
        /\ tracked = st.tracked
        /\ subscribers = Guards
        /\ inflight = st.inflight
        /\ activeGuard = st.active
        /\ obs = st.obs
        /\ waiting # {}
        /\ cap = [phase |-> "waiting", list |-> list, waiting |-> waiting]
  /\ guardRegistry = RegisterAll([n \in Names |-> None], GuardOrder)
  /\ units = RegisterUnits(EmptyRegistry, GuardOrder)
  /\ snap = <<>>
  /\ ops = 0
  /\ last = [op |-> "capture", t |-> None, id |-> 0]

InitCapturing ==
  \E sc \in LiveScenes, a \in SourceValues, list \in CaptureLists :
    StartCapturing(sc, a, list)

SpecCapturing == InitCapturing /\ [][Next]_vars

\* ------------------------------------------------------------ construction
\* the object a call of guard() would return
NewGuard == "gx"

\* faulty variant: the evaluator is looked for when it is first called, after
\* the registrations
guardCheckingLate(eng, reg, un, g, name, evaluator) ==
  IF evaluator = None
    THEN [thrown |-> TRUE, st |-> eng,
          reg |-> IF name # None THEN registerGuardForHydration(reg, name, g) ELSE reg,
          units |-> register(un, name, g)]
    ELSE [thrown |-> FALSE, st |-> evaluate(eng, g, MaxDepth),
          reg |-> IF name # None THEN registerGuardForHydration(reg, name, g) ELSE reg,
          units |-> register(un, name, g)]

\* guard(name, evaluator): the error when there is no evaluator; otherwise
\* the initial evaluation, then the two registrations
guard(eng, reg, un, g, name, evaluator) ==
  IF evaluator = None
    THEN [thrown |-> TRUE, st |-> eng, reg |-> reg, units |-> un]
    ELSE [thrown |-> FALSE, st |-> evaluate(eng, g, MaxDepth),
          reg |-> IF name # None THEN registerGuardForHydration(reg, name, g) ELSE reg,
          units |-> register(un, name, g)]

\* the guards the program has constructed: each was evaluated once at least
Constructed(g) == evaluationId[g] > 0

\* the program before any of its guards is constructed
StartEmpty(sc, a) ==
  /\ prog = sc
  /\ srcVal = [s \in Sources |-> IF s = "A" THEN a ELSE 0]
  /\ srcDeps = [s \in Sources |-> <<>>]
  /\ gState = [g \in Guards |-> PendingState]
  /\ evaluationId = [g \in Guards |-> 0]
  /\ dependents = [g \in Guards |-> <<>>]
  /\ tracked = [g \in Guards |-> <<>>]
  /\ subscribers = {}
  /\ inflight = {}
  /\ activeGuard = None
  /\ obs = NoObs
  /\ guardRegistry = [n \in Names |-> None]
  /\ units = EmptyRegistry
  /\ cap = Idle
  /\ snap = <<>>
  /\ ops = 0
  /\ last = [op |-> "init", t |-> None, id |-> 0]

\* the program constructs its next guard
Construct(g) ==
  /\ ~Constructed(g)
  /\ \A i, j \in 1..Len(GuardOrder) :
       (i < j /\ GuardOrder[j] = g) => Constructed(GuardOrder[i])
  /\ LET r == guard(Cur, guardRegistry, units, g, NameOf(g), g)
     IN /\ Commit(r.st)
        /\ guardRegistry' = r.reg
        /\ units' = r.units
  /\ last' = [op |-> "guard", t |-> g, id |-> 0]
  /\ UNCHANGED <<prog, cap, snap, ops>>

\* the program calls guard(name) or guard() with no evaluator
GuardWithoutEvaluator(name) ==
  /\ LET r == guard(Cur, guardRegistry, units, NewGuard, name, None)
     IN /\ r.thrown
        /\ Commit(r.st)
        /\ guardRegistry' = r.reg
        /\ units' = r.units
  /\ last' = [op |-> "guardThrow", t |-> name, id |-> 0]
  /\ UNCHANGED <<prog, cap, snap, ops>>

InitConstruct == \E sc \in SignalScenes, a \in SourceValues : StartEmpty(sc, a)

NextConstruct ==
  \/ \E g \in Guards : Construct(g)
  \/ \E name \in Names \cup {None} : GuardWithoutEvaluator(name)
  \/ \E s \in ProgramSources, v \in SourceValues : Set(s, v)
  \/ \E p \in inflight : Settle(p)

SpecConstruct == InitConstruct /\ [][NextConstruct]_vars

\* the application calls g._evaluate()
ManualEvaluate(g) ==
  /\ ops < MaxOps
  /\ Constructed(g)
  /\ Commit(evaluate(Cur, g, MaxDepth))
  /\ ops' = ops + 1
  /\ last' = [op |-> "evaluate", t |-> g, id |-> 0]
  /\ UNCHANGED <<prog, guardRegistry, units, cap, snap>>

\* every way a guard's counter moves: construction, notification, manual
\* re-evaluation, settlement of a dependency, restore
NextGeneration ==
  \/ \E g \in Guards : Construct(g)
  \/ \E g \in Guards : ManualEvaluate(g)
  \/ \E s \in ProgramSources, v \in SourceValues : Set(s, v)
  \/ \E p \in inflight : Settle(p)
  \/ Hydrate
  \/ \E list \in CaptureLists : CaptureStart(list)
  \/ \E g \in Guards : CapturePoll(g)

SpecGeneration == InitConstruct /\ [][NextGeneration]_vars

\* ------------------------------------------------ manual re-evaluation
\* the programs of Scenes, with g._evaluate() among the application's calls
NextEvaluate ==
  \/ \E g \in Guards : ManualEvaluate(g)
  \/ \E s \in ProgramSources, v \in SourceValues : Set(s, v)
  \/ \E p \in inflight : Settle(p)

SpecEvaluate == Init /\ [][NextEvaluate]_vars

\* ------------------------------------- waves: diamonds, nested sets, reasons
InitWave == \E sc \in WaveScenes, a \in SourceValues : Start(sc, a)

NextWave ==
  \/ \E s \in ProgramSources, v \in SourceValues : Set(s, v)
  \/ \E p \in inflight : Settle(p)

SpecWave == InitWave /\ [][NextWave]_vars

\* ------------------------------------------------- listeners that raise
InitListeners == \E sc \in ListenerScenes, a \in SourceValues : Start(sc, a)

NextListeners ==
  \/ \E s \in ProgramSources, v \in SourceValues : Set(s, v)
  \/ \E p \in inflight : Settle(p)

SpecListeners == InitListeners /\ [][NextListeners]_vars

\* ------------------------------------------ a snapshot from another process
\* the snapshots the server sends: window.__PULSE_STATE__
ServerSnapshots ==
  << <<[name |-> "n1", state |-> OkState(Str("server"))]>>,
     <<[name |-> "n3", state |-> OkState(Str("server"))]>>,
     <<[name |-> "n2", state |-> FailState(Str("n2 failed"))],
       [name |-> "n1", state |-> OkState(Str("server"))]>> >>

\* the application calls hydrate(JSON.parse(text)) on the k-th of them
Restore(k) ==
  /\ ops < MaxOps
  /\ Commit(hydrate(Cur, guardRegistry, JsonParse(JsonStringify(ServerSnapshots[k]))))
  /\ ops' = ops + 1
  /\ last' = [op |-> "restore", t |-> None, id |-> k]
  /\ UNCHANGED <<prog, guardRegistry, units, cap, snap>>

\* the programs in which the first and the third guard share a name, as the
\* server's and the client's guard of the SSR test do, the first one a plain
\* guard over A
RestoreScenes ==
  { sc \in Scenes : sc["g1"].sel = None /\ sc["g1"].fn \in {"isEven", "id"} }

\* such a program, restoring while it constructs its guards
InitRestore == \E sc \in RestoreScenes, a \in SourceValues : StartEmpty(sc, a)

NextRestore ==
  \/ \E g \in Guards : Construct(g)
  \/ \E k \in 1..Len(ServerSnapshots) : Restore(k)
  \/ \E s \in ProgramSources, v \in SourceValues : Set(s, v)
  \/ \E p \in inflight : Settle(p)

SpecRestore == InitRestore /\ [][NextRestore]_vars

\* ------------------------------------------------- the registry on reload
\* the units created by the k-th load of the modules
LoadTokens == <<"load1", "load2", "load3", "load4", "load5">>

\* the modules are about to be loaded for the first time
StartLoading ==
  /\ prog = [g \in Guards |-> Program(None, FALSE, None, "A", None, "id")]
  /\ srcVal = [s \in Sources |-> 0]
  /\ srcDeps = [s \in Sources |-> <<>>]
  /\ gState = [g \in Guards |-> PendingState]
  /\ evaluationId = [g \in Guards |-> 0]
  /\ dependents = [g \in Guards |-> <<>>]
  /\ tracked = [g \in Guards |-> <<>>]
  /\ subscribers = {}
  /\ inflight = {}
  /\ activeGuard = None
  /\ obs = NoObs
  /\ guardRegistry = [n \in Names |-> None]
  /\ units = EmptyRegistry
  /\ cap = Idle
  /\ snap = <<>>
  /\ ops = 0
  /\ last = [op |-> "init", t |-> None, id |-> 1]

\* the running load creates the unit named n, source(v, { name: n }), whose
\* constructor registers it; a load declares a name once
RegisterUnit(n) ==
  /\ units.units[n] # LoadTokens[last.id]
  /\ units' = register(units, n, LoadTokens[last.id])
  /\ last' = [op |-> "register", t |-> n, id |-> last.id]
  /\ UNCHANGED <<prog, srcVal, srcDeps, gState, evaluationId, dependents, tracked,
                 subscribers, inflight, activeGuard, guardRegistry, cap, snap, obs, ops>>

\* hot reload: the modules are loaded again over the same global registry
Reload ==
  /\ ops < MaxOps
  /\ last.id < Len(LoadTokens)
  /\ ops' = ops + 1
  /\ last' = [op |-> "reload", t |-> None, id |-> last.id + 1]
  /\ UNCHANGED <<prog, srcVal, srcDeps, gState, evaluationId, dependents, tracked,
                 subscribers, inflight, activeGuard, guardRegistry, units, cap, snap, obs>>

\* reset()
ResetRegistry ==
  /\ units.units # [n \in Names |-> None]
  /\ units' = [units EXCEPT !.units = [n \in Names |-> None], !.currentGeneration = 0]
  /\ last' = [op |-> "reset", t |-> None, id |-> last.id]
  /\ UNCHANGED <<prog, srcVal, srcDeps, gState, evaluationId, dependents, tracked,
                 subscribers, inflight, activeGuard, guardRegistry, cap, snap, obs, ops>>

InitRegistry == StartLoading

NextRegistry ==
  \/ \E n \in Names : RegisterUnit(n)
  \/ Reload
  \/ ResetRegistry

SpecRegistry == InitRegistry /\ [][NextRegistry]_vars

\* ------------------------------------------------------------------ claims
\* C1: when a promise settles and its guard's generation counter differs
\* from the one captured when the attempt started, nothing changes: no
\* guard's state, no counter, no dependents set, no evaluator runs and no
\* subscriber is called.
C1_StaleSettlementDiscarded ==
  [][ (last'.op = "settle" /\ last'.id # evaluationId[last'.t])
        => /\ gState' = gState
           /\ evaluationId' = evaluationId
           /\ dependents' = dependents
           /\ srcDeps' = srcDeps
           /\ obs'.execs = obs.execs
           /\ obs'.subCalls = obs.subCalls ]_vars

\* a stale result that arrived after the current one had been applied
C1_Witness ==
  /\ last.op = "settle"
  /\ last.id < evaluationId[last.t]
  /\ obs.applied[last.t] > 0
  /\ gState[last.t].status # "pending"

\* the guards whose evaluator reads sources only
SourceOnly(g) == {prog[g].sel, prog[g].ifT, prog[g].ifF} \subseteq Sources \cup {None}

\* what the evaluator of a SourceOnly guard gives for the sources' values now
ExpectedOutcome(g) ==
  LET p == prog[g]
      c == IF p.sel = None THEN Undefined ELSE Num(srcVal[p.sel])
      target == IF p.sel = None THEN p.ifT ELSE IF Truthy(c) THEN p.ifT ELSE p.ifF
  IN Outcome(p.fn, IF target = None THEN c ELSE Num(srcVal[target]))

InflightOf(g) == { p \in inflight : p.g = g }

\* C2: an async guard over sources all of whose attempts started before any
\* of them settled: once all have settled, the evaluator ran once per
\* attempt, one result was applied and the others discarded, and the guard
\* holds the result computed from the sources' last values.
C2_LastStartedWins ==
  \A g \in Guards :
    (/\ prog[g].async
     /\ SourceOnly(g)
     /\ obs.hydratedAt[g] = 0
     /\ obs.atStart[g] = 0
     /\ InflightOf(g) = {})
      => /\ obs.execs[g] = evaluationId[g]
         /\ obs.applied[g] = 1
         /\ obs.discarded[g] = obs.execs[g] - 1
         /\ LET out == ExpectedOutcome(g)
            IN gState[g] =
                 IF out.kind = "throw" THEN [status |-> "fail", value |-> Undefined, reason |-> out.v]
                 ELSE [status |-> "ok", value |-> out.v, reason |-> Undefined]

\* three attempts (construction and two sets), all settled, the guard ok
\* with the source's last value
C2_Witness ==
  \E g \in Guards :
    /\ prog[g].async /\ SourceOnly(g) /\ prog[g].fn = "id"
    /\ obs.hydratedAt[g] = 0 /\ obs.atStart[g] = 0 /\ InflightOf(g) = {}
    /\ obs.execs[g] = 3
    /\ gState[g].status = "ok"
    /\ gState[g].value = Num(srcVal[prog[g].ifT])
    /\ srcVal[prog[g].ifT] # 0

\* C3: the settlement of an evaluation that was in flight when its guard was
\* restored (its generation is at most the one the restore left) changes no
\* guard's state.
C3_RestoreInvalidatesInflight ==
  [][ (last'.op = "settle" /\ last'.id <= obs.hydratedAt[last'.t])
        => gState' = gState ]_vars

\* such a settlement has happened and the guard still holds the restored state
C3_Witness ==
  /\ last.op = "settle"
  /\ last.id <= obs.hydratedAt[last.t]
  /\ evaluationId[last.t] = obs.hydratedAt[last.t]
  /\ \E i \in 1..Len(snap) :
       /\ guardRegistry[snap[i].name] = last.t
       /\ gState[last.t] = snap[i].state
       /\ snap[i].state.status = "fail"

\* the snapshot as restore receives it
Received == JsonParse(JsonStringify(snap))

\* C4: restore invokes the evaluator of no guard it restores, and each
\* restored guard holds its snapshot entry's state when restore returns.
C4_RestoreNeverEvaluates ==
  [][ last'.op = "hydrate"
        => \A i \in 1..Len(snap) :
             LET g == guardRegistry[snap[i].name]
             IN g # None => /\ obs'.execs[g] = obs.execs[g]
                            /\ gState'[g] = Received[i].state ]_vars

\* C5: no entry of a snapshot that capture returned is pending.
C5_SnapshotSettled ==
  \A i \in 1..Len(snap) : snap[i].state.status \in {"ok", "fail"}

\* C6: restoring a captured snapshot of settled guards, sent through JSON,
\* gives each restored guard the captured status, with the captured value
\* when ok and the captured reason when fail.
C6_RoundTrip ==
  [][ (last'.op = "hydrate" /\ C5_SnapshotSettled)
        => \A i \in 1..Len(snap) :
             LET g == guardRegistry[snap[i].name]
                 c == snap[i].state
             IN g # None => /\ gState'[g].status = c.status
                            /\ c.status = "ok" => gState'[g].value = c.value
                            /\ c.status = "fail" => gState'[g].reason = c.reason ]_vars

\* C7: a guard's status is ok, fail or pending; it has a value only when ok
\* and a reason only when fail; reading it gives undefined unless it is ok.
C7_StateShape ==
  \A g \in Guards :
    /\ gState[g].status \in {"ok", "fail", "pending"}
    /\ gState[g].value # Undefined => gState[g].status = "ok"
    /\ gState[g].reason # Undefined => gState[g].status = "fail"
    /\ gState[g].status # "ok" => GuardRead(Cur, g).v = Undefined
    /\ gState[g].status = "ok" => GuardRead(Cur, g).v = gState[g].value

\* a guard that holds a restored failure, beside a pending guard
C7_Witness ==
  /\ \E g \in Guards : /\ obs.hydratedAt[g] = evaluationId[g]
                       /\ gState[g].status = "fail"
                       /\ gState[g].reason # Undefined
  /\ \E g \in Guards : gState[g].status = "pending"

\* the guards whose state was last written by their own evaluation
LastEvaluated(g) == evaluationId[g] # obs.hydratedAt[g]

C9_EdgesRebuilt ==
  [][ \A g \in Guards :
        (last'.op = "set" /\ SourceOnly(g)) =>
          /\ (InSeq(last'.t, obs.prevReads[g]) /\ ~InSeq(last'.t, obs.lastReads[g])
                /\ obs.lastReads[g] # <<>>)
               => obs'.execs[g] = obs.execs[g]
          /\ InSeq(last'.t, obs.lastReads[g]) => obs'.execs[g] > obs.execs[g] ]_vars

\* C10: a guard whose synchronous evaluation raised after reading a source
\* is a dependent of that source, and explain() lists the source among its
\* dependencies.
C10_DependenciesPersist ==
  \A g \in Guards :
    (~prog[g].async /\ LastEvaluated(g) /\ obs.lastRes[g].kind = "throw") =>
      \A s \in Sources :
        InSeq(s, obs.lastReads[g]) =>
          /\ InSeq(g, srcDeps[s])
          /\ InSeq(s, explain(Cur, g).dependencies)

\* C13: a set of a source whose dependents' evaluators raise or return false
\* completes: the source holds the new value, every guard that was a
\* dependent of the source has been re-evaluated, a synchronous guard whose
\* evaluator raised or returned false is fail with a reason, and the guards
\* that were not re-evaluated keep their state.
C13_SetNeverThrows ==
  [][ last'.op = "set" =>
        \E s \in {last'.t}, v \in SourceValues :
          /\ Set(s, v)
          /\ srcVal'[s] = v
          /\ ~obs'.overflow
          /\ activeGuard' = None
          /\ \A g \in Guards :
               /\ InSeq(g, srcDeps[s]) => obs'.execs[g] > obs.execs[g]
               /\ obs'.execs[g] = obs.execs[g] => gState'[g] = gState[g]
               /\ (/\ ~prog[g].async
                   /\ obs'.execs[g] > obs.execs[g]
                   /\ \/ obs'.lastRes[g].kind = "throw"
                      \/ obs'.lastRes[g] = [kind |-> "return", v |-> Bool(FALSE)])
                    => /\ gState'[g].status = "fail"
                       /\ gState'[g].reason # Undefined
                       /\ gState'[g].value = Undefined ]_vars

\* a set after which the source's first dependent has raised and a later
\* dependent of the same source has been re-evaluated
C13_Witness ==
  /\ last.op = "set"
  /\ \E i, j \in 1..Len(srcDeps[last.t]) :
       LET g == srcDeps[last.t][i]
           h == srcDeps[last.t][j]
       IN /\ i < j
          /\ ~prog[g].async
          /\ obs.lastRes[g].kind = "throw"
          /\ gState[g].status = "fail"
          /\ obs.execs[g] >= 2
          /\ obs.execs[h] >= 2

C11_WavesTerminate ==
  [][ \A s \in Sources, v \in SourceValues : Set(s, v) => ~obs'.overflow ]_vars

\* C12: when a set makes evaluate of a guard start while an evaluate of the
\* same guard is still on the stack, the set returns, that guard ends fail
\* with the cyclic-dependency reason, and its evaluator was not invoked for
\* the re-entrant attempts (fewer invocations than attempts).
C12_CycleDetected ==
  [][ \A s \in Sources, v \in SourceValues :
        Set(s, v) =>
          \A g \in Guards :
            obs'.reentries[g] > obs.reentries[g] =>
              /\ ~obs'.overflow
              /\ gState'[g].status = "fail"
              /\ gState'[g].reason = CyclicReason
              /\ obs'.execs[g] - obs.execs[g]
                   <= (evaluationId'[g] - evaluationId[g])
                        - (obs'.reentries[g] - obs.reentries[g]) ]_vars

\* C17: in every handler that returns, each call of a guard's subscriber
\* carries the snapshot of the oldest transition of that guard not yet
\* delivered (one call per transition, in order, each with its own
\* snapshot), a subscribed guard whose state changed to ok or fail has had
\* its subscriber called with that state, and the subscriber of a guard
\* that was unsubscribed is not called.
C17_SubscribersFollowTransitions ==
  [][ ~obs'.overflow =>
        /\ ~obs'.misdelivered
        /\ \A g \in Guards :
             /\ obs'.undelivered[g] = <<>>
             /\ g \notin subscribers => obs'.subCalls[g] = obs.subCalls[g]
             /\ (/\ g \in subscribers
                 /\ gState'[g] # gState[g]
                 /\ gState'[g].status # "pending")
                  => /\ obs'.subCalls[g] > obs.subCalls[g]
                     /\ obs'.lastSeen[g] = gState'[g] ]_vars

\* what all over the listed guards has to be for the statuses gs gives them
AllExpected(guards, gs) ==
  IF \A i \in 1..Len(guards) : gs[guards[i]].status = "ok"
    THEN [status |-> "ok", value |-> Bool(TRUE), reason |-> Undefined]
    ELSE LET i == CHOOSE k \in 1..Len(guards) :
                    /\ gs[guards[k]].status # "ok"
                    /\ \A j \in 1..(k - 1) : gs[guards[j]].status = "ok"
         IN [status |-> "fail", value |-> Undefined,
             reason |-> Str(prog[guards[i]].name \o " failed")]

\* C14: when a set has returned, a guard built by all is ok with value true
\* if every listed guard is ok (whatever its value), and otherwise fail with
\* reason '<n> failed', n the name of the first listed guard that is not ok,
\* a pending guard counting as not ok.
C14_AllFollowsList ==
  [][ \A s \in Sources, v \in SourceValues :
        Set(s, v) =>
          \A g \in Guards :
            prog[g].fn = "all" => gState'[g] = AllExpected(prog[g].list, gState') ]_vars

\* the guards built by map over a source: the evaluator reads the source and
\* applies the mapper
MapOverSource(g) ==
  /\ "list" \notin DOMAIN prog[g]
  /\ prog[g].sel = None
  /\ prog[g].ifT \in Sources

\* the state the mapper's result for the source value n has to give
MappedState(g, n) ==
  LET out == Outcome(prog[g].fn, Num(n))
  IN CASE out.kind = "throw" -> [status |-> "fail", value |-> Undefined, reason |-> out.v]
       [] out.v = Bool(FALSE) ->
            [status |-> "fail", value |-> Undefined, reason |-> Str(prog[g].name \o " failed")]
       [] OTHER -> [status |-> "ok", value |-> out.v, reason |-> Undefined]

\* the mapper calls of g whose result is still awaited
CurrentInflight(g) == { p \in inflight : p.g = g /\ p.id = evaluationId[g] }

\* C18: a map over a source is re-evaluated by every set of that source;
\* with an asynchronous mapper the guard is pending while the mapper call
\* started last is in flight, and otherwise holds the mapper's result for
\* the source's present value, whatever order the calls settle in.
C18_MapFollowsSource ==
  /\ [](\A g \in Guards :
          (MapOverSource(g) /\ prog[g].async) =>
            IF CurrentInflight(g) # {}
              THEN gState[g].status = "pending"
              ELSE gState[g] = MappedState(g, srcVal[prog[g].ifT]))
  /\ [][ \A s \in Sources, v \in SourceValues :
            Set(s, v) =>
              \A g \in Guards :
                (MapOverSource(g) /\ prog[g].ifT = s) =>
                  /\ obs'.execs[g] = obs.execs[g] + 1
                  /\ prog[g].async =>
                       /\ gState'[g].status = "pending"
                       /\ \E p \in inflight' :
                            /\ p.g = g /\ p.id = evaluationId'[g]
                            /\ p.outcome = Outcome(prog[g].fn, Num(v))
                  /\ ~prog[g].async => gState'[g] = MappedState(g, v) ]_vars

\* three mapper calls started before any settled; all have settled, the one
\* started last not last, and the guard holds the mapper's result for the
\* last value
C18_Witness ==
  \E g \in Guards :
    /\ MapOverSource(g) /\ prog[g].async /\ prog[g].fn = "succ"
    /\ obs.execs[g] = 3
    /\ obs.atStart[g] = 0
    /\ InflightOf(g) = {}
    /\ last.op = "settle" /\ last.t = g /\ last.id < evaluationId[g]
    /\ srcVal[prog[g].ifT] = 1
    /\ gState[g] = [status |-> "ok", value |-> Num(2), reason |-> Undefined]

\* C19: between handlers, reading a compute gives the processor's result
\* for the present values of its listed sources, in list order.
C19_ComputeIsCurrent ==
  \A g \in Guards :
    ("list" \in DOMAIN prog[g] /\ prog[g].fn # "all") =>
      GuardRead(Cur, g).v =
        Processor(prog[g].fn, [i \in 1..Len(prog[g].list) |-> Num(srcVal[prog[g].list[i]])]).v

\* a listed guard that is pending with no evaluation in flight whose result
\* would be applied
Orphaned ==
  \E g \in cap.waiting :
    gState[g].status = "pending" /\ { p \in inflight : p.g = g /\ p.id = evaluationId[g] } = {}

\* C20: a capture that waits returns, the scheduler running the settlements
\* and the timers between its polls, provided every pending guard it waits
\* for has its latest evaluation in flight (the sets end with MaxOps).
C20_CaptureReturns ==
  [](cap.phase = "waiting" => <>(cap.phase = "idle" \/ Orphaned))

\* a capture that waited for two guards has returned after the polls, with
\* a snapshot whose entries have settled
C20_Witness ==
  /\ last.op = "poll"
  /\ cap.phase = "idle"
  /\ Len(snap) = 2
  /\ \A i \in 1..Len(snap) : snap[i].state.status = "ok"
  /\ \A g \in {"g1", "g2"} : obs.applied[g] >= 1

\* the i-th call of _hydrate that hydrate makes for the snapshot received:
\* the guard, the state passed, the engine before the call and after it
RestoreStep(i) ==
  LET g == guardRegistry[Received[i].name]
      before == hydrate(Cur, guardRegistry, SubSeq(Received, 1, i - 1))
  IN [g |-> g, newState |-> Received[i].state, before |-> before,
      after |-> IF g = None THEN before ELSE _hydrate(before, g, Received[i].state)]

\* C21: in a restore, the call that restores guard G re-evaluates every
\* guard that is a dependent of G at that moment, each reading the restored
\* state, and calls G's subscriber once with the restored state; the
\* restore returns with the engine the last of these calls left.
C21_RestoreNotifies ==
  [][ last'.op = "hydrate" =>
        /\ gState' = RestoreStep(Len(Received)).after.state
        /\ obs' = RestoreStep(Len(Received)).after.obs
        /\ \A i \in 1..Len(Received) :
             LET r == RestoreStep(i)
             IN r.g # None =>
                  /\ \A k \in 1..Len(r.before.deps[r.g]) :
                       LET d == r.before.deps[r.g][k]
                       IN /\ r.after.obs.execs[d] > r.before.obs.execs[d]
                          /\ InSeq(r.g, r.after.obs.lastReads[d])
                          /\ (~prog[d].async /\ prog[d].ifT = r.g) =>
                               r.after.obs.lastRes[d] =
                                 Outcome(prog[d].fn,
                                         IF r.newState.status = "ok"
                                           THEN r.newState.value ELSE Undefined)
                  /\ r.g \in subscribers =>
                       /\ r.after.obs.subCalls[r.g] = r.before.obs.subCalls[r.g] + 1
                       /\ r.after.obs.lastSeen[r.g] = r.newState ]_vars

\* a restore gave a guard a state other than the one its last evaluation
\* left; its subscriber saw the restored state and its dependent was
\* evaluated again, reading it
C21_Witness ==
  /\ last.op = "hydrate"
  /\ \E i \in 1..Len(snap) :
       LET g == guardRegistry[snap[i].name]
       IN /\ g # None
          /\ obs.hydratedAt[g] = evaluationId[g]
          /\ gState[g] = snap[i].state
          /\ obs.lastRes[g].kind = "return"
          /\ obs.lastRes[g].v # gState[g].value
          /\ obs.lastSeen[g] = gState[g]
          /\ \E d \in Guards :
               /\ prog[d].ifT = g
               /\ obs.execs[d] >= 3
               /\ InSeq(g, obs.lastReads[d])
               /\ obs.lastRes[d].v = gState[g].value

\* the error the last evaluation of g raised (undefined when none), when the guard's state is the
\* one that evaluation gave: a synchronous throw, or the rejection of the
\* promise of the current generation, applied
RaisedBy(g) ==
  IF ~LastEvaluated(g) THEN Undefined
  ELSE IF ~prog[g].async
    THEN (IF obs.lastRes[g].kind = "throw" THEN obs.lastRes[g].v ELSE Undefined)
  ELSE IF /\ CurrentInflight(g) = {}
          /\ obs.lastRes[g].kind = "promise"
          /\ obs.lastRes[g].v.kind = "throw"
    THEN obs.lastRes[g].v.v
  ELSE Undefined

\* C22: a guard whose evaluator raised an error carrying a code and
\* metadata is fail, and its reason is that payload, code and metadata
\* intact.
C22_StructuredReason ==
  \A g \in Guards :
    RaisedBy(g).t = "error" =>
      /\ gState[g].status = "fail"
      /\ gState[g].reason = RaisedBy(g)
      /\ gState[g].reason.code = "ERR_AUTH"
      /\ gState[g].reason.meta = "guest"

\* C23: explain() of a guard gives its name, its status and, as
\* dependencies, the Trackables the guard read during its latest
\* evaluation, one entry each, in the order of the reads.
C23_ExplainListsReads ==
  \A g \in Guards :
    /\ explain(Cur, g).name = NameOf(g)
    /\ explain(Cur, g).status = gState[g].status
    /\ explain(Cur, g).dependencies = obs.lastReads[g]

\* what any over the listed guards has to be for the statuses gs gives them
AnyExpected(guards, gs) ==
  IF \E i \in 1..Len(guards) : gs[guards[i]].status = "ok"
    THEN [status |-> "ok", value |-> Bool(TRUE), reason |-> Undefined]
    ELSE [status |-> "fail", value |-> Undefined, reason |-> AnyReason]

\* C24: when a set has returned, a guard built by any is ok if at least one
\* listed guard is ok, and fail with the reason that none succeeded if no
\* listed guard is ok.
C24_AnyFollowsList ==
  [][ \A s \in Sources, v \in SourceValues :
        Set(s, v) =>
          \A g \in Guards :
            ("list" \in DOMAIN prog[g] /\ prog[g].fn = "any") =>
              gState'[g] = AnyExpected(prog[g].list, gState') ]_vars

\* the status of the evaluation a not wraps: of the wrapped guard, or of a
\* guard that had the wrapped evaluator for the sources' present values
WrappedStatus(g) ==
  LET p == prog[g]
  IN IF p.ifT \notin Sources THEN gState[p.ifT].status
     ELSE IF p.async /\ CurrentInflight(g) # {} THEN "pending"
     ELSE LET out == Outcome(p.fn, Num(srcVal[p.ifT]))
          IN IF out.kind = "throw" \/ out.v = Bool(FALSE) THEN "fail" ELSE "ok"

\* C25: between handlers a guard built by not is fail when the wrapped
\* evaluation is ok, ok when it fails, and pending while it is pending.
C25_NotInverts ==
  \A g \in Guards :
    "inverted" \in DOMAIN prog[g] =>
      gState[g].status =
        CASE WrappedStatus(g) = "ok" -> "fail"
          [] WrappedStatus(g) = "fail" -> "ok"
          [] OTHER -> "pending"

\* C26: a compute whose processor does not raise has no failure reason:
\* reason() is undefined after every evaluation, whatever the processor
\* returned.
C26_ComputeHasNoReason ==
  \A g \in Guards :
    ("list" \in DOMAIN prog[g] /\ prog[g].fn \in {"sum", "less"}) =>
      reasonOf(Cur, g).v = Undefined

\* C27: a call of guard with no evaluator raises, attempts no evaluation
\* and registers nothing: the hydration registry and the unit registry are
\* as before the call, and so is every guard.
C27_NoEvaluatorFailsFast ==
  [][ \A name \in Names \cup {None} :
        GuardWithoutEvaluator(name) =>
          /\ guard(Cur, guardRegistry, units, NewGuard, name, None).thrown
          /\ guardRegistry' = guardRegistry
          /\ units' = units
          /\ evaluationId' = evaluationId
          /\ obs'.execs = obs.execs
          /\ gState' = gState
          /\ inflight' = inflight ]_vars

\* guard(name) with no evaluator was called under a name that a
\* constructed guard is registered with
C27_Witness ==
  /\ last.op = "guardThrow"
  /\ last.t # None
  /\ guardRegistry[last.t] \in Guards
  /\ units.units[last.t] \in Guards
  /\ \E g \in Guards : ~Constructed(g)

\* the calls of _hydrate a restore of the present snapshot makes on g
RestoresOf(g) ==
  Cardinality({ i \in 1..Len(snap) : guardRegistry[snap[i].name] = g })

\* C28: in every step a guard's generation counter grows by one for each
\* evaluation attempt made on it (at construction, on a notification, on a
\* manual re-evaluation, whether the attempt succeeds, fails or is
\* superseded) and by one for a restore, and never decreases; the attempts
\* in flight on one guard hold different generations, none above the
\* counter.
C28_GenerationCounts ==
  /\ [](\A g \in Guards :
          /\ \A p, q \in InflightOf(g) : p.id = q.id => p = q
          /\ \A p \in InflightOf(g) : p.id \in 1..evaluationId[g]
          /\ prog[g].async =>
               Cardinality(InflightOf(g)) + obs.applied[g] + obs.discarded[g]
                 = obs.execs[g])
  /\ [][ \A g \in Guards :
            /\ evaluationId'[g] >= evaluationId[g]
            /\ evaluationId'[g] - evaluationId[g] =
                 (obs'.execs[g] - obs.execs[g])
                   + (IF last'.op = "hydrate" THEN RestoresOf(g) ELSE 0) ]_vars

\* a guard that was constructed, re-evaluated and then restored: its
\* counter is the number of its evaluations plus one, and some guard's
\* latest attempt raised
C28_Witness ==
  /\ last.op = "hydrate"
  /\ \E g \in Guards :
       /\ obs.hydratedAt[g] = evaluationId[g]
       /\ obs.execs[g] >= 2
       /\ evaluationId[g] = obs.execs[g] + 1
  /\ \E g \in Guards : obs.lastRes[g].kind = "throw"

\* C29: every pending guard has an evaluation in flight whose captured
\* generation is the guard's counter.
C29_PendingHasInflight ==
  \A g \in Guards :
    gState[g].status = "pending" => CurrentInflight(g) # {}

\* C30: a set of a source re-evaluates each asynchronous guard that depends
\* on it; when the set returns the guard is pending, its subscriber has
\* been called with the pending state, and the guards that were its
\* dependents have been re-evaluated.
C30_PendingIsNotified ==
  [][ \A s \in Sources, v \in SourceValues :
        Set(s, v) =>
          \A g \in Guards :
            (prog[g].async /\ InSeq(g, srcDeps[s])) =>
              /\ gState'[g].status = "pending"
              /\ g \in subscribers =>
                   /\ obs'.subCalls[g] > obs.subCalls[g]
                   /\ obs'.lastSeen[g] = PendingState
              /\ \A k \in 1..Len(dependents[g]) :
                   obs'.execs[dependents[g][k]] > obs.execs[dependents[g][k]] ]_vars

\* C31: a call of g._evaluate() on a synchronous guard whose evaluator
\* returns normally notifies exactly when the status or the value differs
\* from the state the guard had: then its subscriber is called once with the
\* new state and every guard that was its dependent is re-evaluated;
\* otherwise no subscriber is called, no other guard is re-evaluated or
\* changed, and the guard's dependents set is as it was.
C31_NotifiesOnChange ==
  [][ (/\ last'.op = "evaluate"
       /\ ~prog[last'.t].async
       /\ obs'.lastRes[last'.t].kind = "return")
        => LET g == last'.t
           IN IF \/ gState'[g].status # gState[g].status
                 \/ gState'[g].value # gState[g].value
                THEN /\ obs'.subCalls[g] = obs.subCalls[g] + 1
                     /\ obs'.lastSeen[g] = gState'[g]
                     /\ \A i \in 1..Len(dependents[g]) :
                          obs'.execs[dependents[g][i]] > obs.execs[dependents[g][i]]
                ELSE /\ obs'.subCalls = obs.subCalls
                     /\ dependents'[g] = dependents[g]
                     /\ \A h \in Guards \ {g} :
                          /\ obs'.execs[h] = obs.execs[h]
                          /\ gState'[h] = gState[h] ]_vars

\* a manual re-evaluation gave a synchronous guard a value other than the
\* one it had (its status staying ok), its subscriber saw the new state and
\* a guard that reads it was re-evaluated
C31_Witness ==
  /\ last.op = "evaluate"
  /\ ~prog[last.t].async
  /\ obs.lastRes[last.t].kind = "return"
  /\ gState[last.t] = OkState(Undefined)
  /\ obs.subCalls[last.t] >= 2
  /\ obs.lastSeen[last.t] = gState[last.t]
  /\ \E h \in Guards :
       /\ InSeq(last.t, obs.lastReads[h])
       /\ obs.execs[h] >= 3
       /\ gState[h] = OkState(Undefined)

\* the place of x in the sequence s
IndexOf(x, s) == CHOOSE i \in 1..Len(s) : s[i] = x

\* C32: when a set returns, every guard that was a dependent of the source
\* has been re-evaluated, a guard that reads sources only exactly once (it
\* registered itself again during the wave and was not notified again), and
\* the dependents registered themselves again in the order in which they
\* had been registered: the loop visited them in that order.
C32_SetNotifiesInOrder ==
  [][ last'.op = "set" =>
        LET s == last'.t
            deps == srcDeps[s]
        IN /\ ~obs'.overflow
           /\ \A i \in 1..Len(deps) :
                /\ obs'.execs[deps[i]] > obs.execs[deps[i]]
                /\ SourceOnly(deps[i]) => obs'.execs[deps[i]] = obs.execs[deps[i]] + 1
           /\ \A i, j \in 1..Len(srcDeps'[s]) :
                (/\ i < j
                 /\ InSeq(srcDeps'[s][i], deps)
                 /\ InSeq(srcDeps'[s][j], deps))
                  => IndexOf(srcDeps'[s][i], deps) < IndexOf(srcDeps'[s][j], deps) ]_vars

\* a set of a source whose dependents had registered in an order other than
\* the order of construction: both were re-evaluated and registered again,
\* in that order
C32_Witness ==
  /\ last.op = "set"
  /\ srcDeps[last.t] = <<"g3", "g1">>
  /\ obs.execs["g3"] >= 2
  /\ obs.execs["g1"] >= 3
  /\ InSeq(last.t, obs.lastReads["g1"])
  /\ InSeq(last.t, obs.prevReads["g1"])

\* what the evaluator of g can read
ReadsOf(g) ==
  ({prog[g].sel, prog[g].ifT, prog[g].ifF} \ {None})
    \cup (IF "list" \in DOMAIN prog[g]
            THEN {prog[g].list[i] : i \in 1..Len(prog[g].list)} ELSE {})

\* C33: between handlers the active-evaluator slot is empty, also after
\* evaluators that raised; a guard whose evaluator sets a source (the
\* dependents of that source are evaluated inside it, some of them raising)
\* and then reads is a dependent of what it read; and every dependent of a
\* source or guard is a guard whose own evaluator reads it, never the guard
\* that was active around a nested evaluation.
C33_SlotRestored ==
  /\ getCurrentGuard(Cur) = None
  /\ \A g \in Guards :
       /\ "sets" \in DOMAIN prog[g] => InSeq(g, srcDeps[prog[g].ifT])
       /\ \A s \in Sources : InSeq(g, srcDeps[s]) => s \in ReadsOf(g)
       /\ \A h \in Guards : InSeq(g, dependents[h]) => h \in ReadsOf(g)

\* a set of A re-evaluated g1, whose evaluator set B; that wave re-evaluated
\* g2, which raised; g1 then read A and is its dependent
C33_Witness ==
  /\ last.op = "set"
  /\ last.t = "A"
  /\ ops = 1
  /\ "sets" \in DOMAIN prog["g1"]
  /\ obs.execs["g1"] = 2
  /\ obs.execs["g2"] = 2
  /\ obs.lastRes["g2"].kind = "throw"
  /\ InSeq("g1", srcDeps["A"])
  /\ ~InSeq("g1", srcDeps["B"])
  /\ activeGuard = None

\* C34: a guard whose asynchronous evaluator reads a source after its await
\* is never a dependent of that source, and no other guard becomes one
\* through that read; the guard is a dependent of what it read before the
\* await.
C34_LateReadsUntracked ==
  \A g \in Guards :
    "late" \in DOMAIN prog[g] =>
      /\ ~InSeq(g, srcDeps[prog[g].late])
      /\ \A h \in Guards : InSeq(h, srcDeps[prog[g].late]) => prog[g].late \in ReadsOf(h)
      /\ InSeq(g, srcDeps[prog[g].ifT])

\* the promise of such a guard has settled: the guard is ok with the value
\* the source read after the await held then
C34_Witness ==
  /\ last.op = "settle"
  /\ "late" \in DOMAIN prog[last.t]
  /\ obs.applied[last.t] >= 1
  /\ gState[last.t] = OkState(Num(srcVal[prog[last.t].late]))
  /\ srcVal[prog[last.t].late] > 0
  /\ ops >= 1

\* the state the latest run of g's evaluator asked for: of the value it
\* returned or the error it raised, or of what its promise settled with
AskedState(g) ==
  LET res == IF prog[g].async THEN obs.lastRes[g].v ELSE obs.lastRes[g]
  IN IF res.kind = "return" THEN ResultState(g, res.v) ELSE ErrorState(res.v)

\* C35: a guard whose listener raises holds, once its notification has
\* finished, the state its latest evaluation set: a synchronous guard the
\* state of what its evaluator returned or raised, an asynchronous guard
\* that is not pending the state of what its promise settled with.
C35_ListenerCannotAlter ==
  \A g \in Guards :
    ("listener" \in DOMAIN prog[g] /\ gState[g].status # "pending")
      => gState[g] = AskedState(g)

\* the state a run of g's evaluator now, over the sources and guards as
\* they are, would give a synchronous guard
FreshState(g) ==
  LET res == Evaluator(Cur, g).res
  IN IF res.kind = "return" THEN ResultState(g, res.v) ELSE ErrorState(res.v)

\* C36: with no asynchronous evaluation in flight, every synchronous guard
\* holds the state its evaluator would give now, from the current values of
\* the sources and the current states of the guards it reads.
C36_NoStaleGuard ==
  inflight = {} =>
    \A g \in Guards : ~prog[g].async => gState[g] = FreshState(g)

\* C37: whenever a handler changes the reason of a guard G, every guard
\* whose evaluator gives G's reason() or state().reason has been
\* re-evaluated when the handler returns and holds G's reason as it is
\* then, also when G is fail before and after.
C37_ReasonFollowed ==
  [][ \A g \in Guards :
        ("via" \in DOMAIN prog[g]
           /\ gState'[prog[g].ifT].reason # gState[prog[g].ifT].reason)
          => /\ obs'.execs[g] > obs.execs[g]
             /\ gState'[g].value = gState'[prog[g].ifT].reason ]_vars

RestoreTargets(snapshot) ==
  { guardRegistry[snapshot[i].name] : i \in 1..Len(snapshot) } \ {None}

\* g was constructed before h under the same name
Shadowed(g, h) ==
  /\ Constructed(g)
  /\ Constructed(h)
  /\ NameOf(g) # None
  /\ NameOf(g) = NameOf(h)
  /\ \E i, j \in 1..Len(GuardOrder) : i < j /\ GuardOrder[i] = g /\ GuardOrder[j] = h

\* C39: a restore calls _hydrate on the guard constructed last under each
\* name of the snapshot and on no other: a guard constructed earlier under a
\* name keeps its state and its generation, a guard that is not a target
\* changes only when it is re-evaluated as a dependent, each target's
\* generation grows, and a snapshot whose names match no constructed guard
\* changes no guard.
C39_RestoreLatestOfName ==
  [][ last'.op = "restore" =>
        LET targets == RestoreTargets(ServerSnapshots[last'.id])
        IN /\ \A g, h \in Guards :
                Shadowed(g, h) => /\ g \notin targets
                                  /\ gState'[g] = gState[g]
                                  /\ evaluationId'[g] = evaluationId[g]
           /\ \A g \in Guards \ targets :
                obs'.execs[g] = obs.execs[g]
                  => gState'[g] = gState[g] /\ evaluationId'[g] = evaluationId[g]
           /\ \A g \in targets :
                /\ Constructed(g)
                /\ evaluationId'[g] > evaluationId[g]
                /\ ~(\E h \in Guards : Shadowed(g, h))
           /\ targets = {} =>
                /\ gState' = gState
                /\ evaluationId' = evaluationId
                /\ dependents' = dependents
                /\ obs' = obs ]_vars

\* a restore of an entry under the name two constructed guards share: the
\* later one holds the entry's state, the earlier one the state of its own
\* evaluation
C39_Witness ==
  /\ last.op = "restore"
  /\ last.id = 1
  /\ Shadowed("g1", "g3")
  /\ gState["g3"] = OkState(Str("server"))
  /\ evaluationId["g3"] = 2
  /\ gState["g1"] # OkState(Str("server"))
  /\ evaluationId["g1"] = obs.execs["g1"]

\* the registry as the cleanup timer leaves it, when one is set
Swept(un) == IF un.cleanupScheduled THEN cleanupDeadUnits(un) ELSE un

\* C40: when a reload registers again a name the registry holds, then,
\* once the cleanup it scheduled has run, the registry holds the units
\* the reload has registered and no unit of an earlier load.
C40_SweepRemovesDropped ==
  [][ (last'.op = "register" /\ last'.id >= 2 /\ units.units[last'.t] # None) =>
        \A n \in Names :
          Swept(units').units[n] # None <=> units'.units[n] = LoadTokens[last'.id] ]_vars
====
